---- MODULE Spec2Model ----
(***************************************************************************)
(* The factory digital twin of state_engine.py (class FactoryState) as a   *)
(* state machine: one action per public method, the two sqlite tables as   *)
(* functions keyed by their primary keys.                                  *)
(*                                                                         *)
(* Money is counted in cents (the code's floats carry at most the two      *)
(* decimals of round(price, 2)); machine_health in whole percent.          *)
(***************************************************************************)
EXTENDS Integers, Sequences, FiniteSets, TLC

VARIABLES inventory, cash_balance, machine_health, factory_clock,
          current_shift, active_jobs, job_history, factory_history, result

core == <<inventory, cash_balance, machine_health, factory_clock,
          current_shift, active_jobs>>
store == <<job_history, factory_history>>
vars == <<inventory, cash_balance, machine_health, factory_clock,
          current_shift, active_jobs, job_history, factory_history, result>>

(***************************************************************************)
(* Bounds of the model and the inputs the callers draw from.               *)
(***************************************************************************)
MaxTick == 1
RunTicks == 6
FaultyTicks == 4
MaxActive == 2
JobIds == {"O1", "O2"}
Qtys == {10}
WearIds == {"O1"}
WearQtys == {1}
ShiftArgs == {"DAY", "NIGHT", "SIDEWAYS"}
Horizons == {1, 2}
DemandNoise == {-2, 2}
PriceNoise == {-500, 500}
Storage == {TRUE}

(***************************************************************************)
(* Program constants.                                                      *)
(***************************************************************************)
Dollar == 100
InitialCash == 1000
InitialHealth == 100
FullHealth == 100
RepairCost == 200
UnitCost == 50
JobDuration == 5
DayWear == 5
NightWear == 8
BasePrice == 150
BaseDemand == 10
CyclePeriod == 24

Max(a, b) == IF a >= b THEN a ELSE b

(***************************************************************************)
(* Python values used as dict keys: an int and a str are never equal, and  *)
(* str(n) is the decimal digit string of n.                                *)
(***************************************************************************)
DigitChar == <<"0", "1", "2", "3", "4", "5", "6", "7", "8", "9">>

RECURSIVE Digits(_)
Digits(n) == IF n < 10 THEN <<DigitChar[n + 1]>>
             ELSE Digits(n \div 10) \o <<DigitChar[(n % 10) + 1]>>

PyInt(n) == [type |-> "int", v |-> n]
PyStr(n) == [type |-> "str", v |-> Digits(n)]
KeyEq(a, b) == a.type = b.type /\ a.v = b.v

\* dict[key]: the indices of the entries stored under key (none: KeyError).
DictFind(d, key) == {i \in DOMAIN d : KeyEq(d[i].key, key)}

(***************************************************************************)
(* Market model: sin(2*pi*t/24) in thousandths, by quarter-wave symmetry.  *)
(***************************************************************************)
QuarterSine == <<0, 259, 500, 707, 866, 966, 1000>>

Cycle(t) ==
    LET r == t % CyclePeriod
        h == r % 12
        q == IF h <= 6 THEN h ELSE 12 - h
        s == QuarterSine[q + 1]
    IN  IF r < 12 THEN s ELSE 0 - s

\* int(base_market_demand + cycle*5 + randint(-2,2)), at least 1.
Demand(t, dn) == Max(1, (BaseDemand * 1000 + Cycle(t) * 5 + dn * 1000) \div 1000)

\* round(base_market_price + cycle*20 + uniform(-5,5), 2), in cents.
Price(t, pn) == BasePrice * Dollar + (Cycle(t) * 20 * Dollar) \div 1000 + pn

\* The forecast dict in insertion order; dn, pn give the noise of each offset.
Forecast(clock, horizon, dn, pn) ==
    [t \in 1..horizon |->
        [key |-> PyStr(clock + t),
         demand |-> Demand(clock + t, dn[t]),
         price |-> Price(clock + t, pn[t])]]

(***************************************************************************)
(* Persistence log.  ok = FALSE is a write that sqlite refuses: the        *)
(* exception is caught and logged, the table is left as it was.            *)
(***************************************************************************)
\* INSERT OR IGNORE: the first row written under a key stays.
UpsertKeepFirst(f, k, v) ==
    [x \in (DOMAIN f) \cup {k} |-> IF x \in DOMAIN f THEN f[x] ELSE v]

Upsert(f, k, v) == [x \in (DOMAIN f) \cup {k} |-> IF x = k THEN v ELSE f[x]]

\* INSERT OR REPLACE INTO job_history, end_tick = the clock at the write.
LogJob(jh, job, status, clock, ok) ==
    IF ok
    THEN Upsert(jh, job.id,
                [start_tick |-> job.start_tick, end_tick |-> clock,
                 status |-> status, revenue |-> job.revenue, cost |-> job.cost])
    ELSE jh

\* INSERT INTO factory_history: a second row for a tick violates the
\* primary key, which is one more caught write error.
LogState(fh, snap, ok) ==
    IF ok /\ snap.tick \notin DOMAIN fh
    THEN Upsert(fh, snap.tick, snap)
    ELSE fh

Snapshot(clock, cash, inv, health, jobs, shift) ==
    [tick |-> clock, cash_balance |-> cash, inventory |-> inv,
     machine_health |-> health, active_jobs_count |-> Len(jobs),
     shift |-> shift]

EmptyTable == [x \in {} |-> 0]

Ret(op, arg, qty, kind, value) ==
    [op |-> op, arg |-> arg, qty |-> qty, kind |-> kind, value |-> value]

(***************************************************************************)
(* Construction.                                                           *)
(***************************************************************************)
Init ==
    /\ inventory = 0
    /\ cash_balance = InitialCash * Dollar
    /\ machine_health = InitialHealth
    /\ factory_clock = 0
    /\ current_shift = "DAY"
    /\ active_jobs = <<>>
    /\ job_history = EmptyTable
    /\ factory_history = EmptyTable
    /\ result = Ret("__init__", "", 0, "ok", <<>>)

(***************************************************************************)
(* Maintenance and finance.                                                *)
(***************************************************************************)
\* A sufficiency check that only asks for a positive balance.
CanRepairLoose(cash, cost) == cash > 0

CanRepair(cash, cost) == cash >= cost

\* A repair that forgets the debit.
RepairedFree(cash, cost) == cash

Repaired(cash, cost) == cash - cost

repair_machine ==
    LET cost == RepairCost * Dollar
    IN  IF CanRepair(cash_balance, cost)
        THEN /\ cash_balance' = Repaired(cash_balance, cost)
             /\ machine_health' = FullHealth
             /\ result' = Ret("repair_machine", "", 0, "Repaired", <<>>)
             /\ UNCHANGED <<inventory, factory_clock, current_shift,
                            active_jobs, store>>
        ELSE /\ result' = Ret("repair_machine", "", 0, "InsufficientFunds", <<>>)
             /\ UNCHANGED <<core, store>>

TotalCost(qty) == UnitCost * qty * Dollar

\* A funds check that only asks for a positive balance.
AffordableLoose(cash, cost) == cash > 0

Affordable(cash, cost) == cash >= cost

\* A breakdown test that lets a machine at exactly 0 run.
BrokenBelowZero(health) == health < 0

Broken(health) == health <= 0

\* Wear that ignores the night shift rule.
WearFlat(shift) == DayWear

Wear(shift) == IF shift = "DAY" THEN DayWear ELSE NightWear

\* Wear without the floor at 0.
WornNoFloor(health, wear) == health - wear

Worn(health, wear) == Max(0, health - wear)

NewJob(job_id, qty, clock) ==
    [id |-> job_id, qty |-> qty, start_tick |-> clock,
     duration |-> JobDuration, cost |-> TotalCost(qty), revenue |-> 0]

\* A start_job that lets the error of a refused job-record write escape.
start_job_uncaught(job_id, qty, ok) ==
    LET total_cost == TotalCost(qty)
        job == NewJob(job_id, qty, factory_clock)
    IN  IF Affordable(cash_balance, total_cost)
        THEN IF Broken(machine_health)
             THEN /\ result' = Ret("start_job", job_id, qty, "MachineBroken", <<>>)
                  /\ UNCHANGED <<core, store>>
             ELSE /\ cash_balance' = cash_balance - total_cost
                  /\ active_jobs' = Append(active_jobs, job)
                  /\ machine_health' = Worn(machine_health, Wear(current_shift))
                  /\ job_history' = LogJob(job_history, job, "STARTED",
                                           factory_clock, ok)
                  /\ result' = Ret("start_job", job_id, qty,
                                   IF ok THEN "Started" ELSE "OperationalError",
                                   <<>>)
                  /\ UNCHANGED <<inventory, factory_clock, current_shift,
                                 factory_history>>
        ELSE /\ result' = Ret("start_job", job_id, qty, "InsufficientFunds", <<>>)
             /\ UNCHANGED <<core, store>>

start_job(job_id, qty, ok) ==
    LET total_cost == TotalCost(qty)
        job == NewJob(job_id, qty, factory_clock)
    IN  IF Affordable(cash_balance, total_cost)
        THEN IF Broken(machine_health)
             THEN /\ result' = Ret("start_job", job_id, qty, "MachineBroken", <<>>)
                  /\ UNCHANGED <<core, store>>
             ELSE /\ cash_balance' = cash_balance - total_cost
                  /\ active_jobs' = Append(active_jobs, job)
                  /\ machine_health' = Worn(machine_health, Wear(current_shift))
                  /\ job_history' = LogJob(job_history, job, "STARTED",
                                           factory_clock, ok)
                  /\ result' = Ret("start_job", job_id, qty, "Started", <<>>)
                  /\ UNCHANGED <<inventory, factory_clock, current_shift,
                                 factory_history>>
        ELSE /\ result' = Ret("start_job", job_id, qty, "InsufficientFunds", <<>>)
             /\ UNCHANGED <<core, store>>

\* list.remove(x): drops the first element equal to x.
Remove(seq, x) ==
    LET hits == {i \in DOMAIN seq : seq[i] = x}
        k == CHOOSE i \in hits : \A j \in hits : i <= j
    IN  IF hits = {} THEN seq
        ELSE [i \in 1..(Len(seq) - 1) |-> IF i < k THEN seq[i] ELSE seq[i + 1]]

\* A search that takes any active job for the one asked for.
MatchingAny(jobs, job_id) == DOMAIN jobs

\* The indices of the active jobs carrying job_id, in iteration order.
Matching(jobs, job_id) == {i \in DOMAIN jobs : jobs[i].id = job_id}

\* A cancellation that refunds the job's cost.
cancel_job_refund(job_id, ok) ==
    LET hits == Matching(active_jobs, job_id)
        k == CHOOSE i \in hits : \A j \in hits : i <= j
    IN  IF hits # {}
        THEN /\ active_jobs' = Remove(active_jobs, active_jobs[k])
             /\ cash_balance' = cash_balance + active_jobs[k].cost
             /\ job_history' = LogJob(job_history, active_jobs[k], "CANCELLED",
                                      factory_clock, ok)
             /\ result' = Ret("cancel_job", job_id, 0, "Cancelled", <<>>)
             /\ UNCHANGED <<inventory, machine_health,
                            factory_clock, current_shift, factory_history>>
        ELSE /\ result' = Ret("cancel_job", job_id, 0, "JobNotFound", <<>>)
             /\ UNCHANGED <<core, store>>

cancel_job(job_id, ok) ==
    LET hits == Matching(active_jobs, job_id)
        k == CHOOSE i \in hits : \A j \in hits : i <= j
    IN  IF hits # {}
        THEN /\ active_jobs' = Remove(active_jobs, active_jobs[k])
             /\ job_history' = LogJob(job_history, active_jobs[k], "CANCELLED",
                                      factory_clock, ok)
             /\ result' = Ret("cancel_job", job_id, 0, "Cancelled", <<>>)
             /\ UNCHANGED <<inventory, cash_balance, machine_health,
                            factory_clock, current_shift, factory_history>>
        ELSE /\ result' = Ret("cancel_job", job_id, 0, "JobNotFound", <<>>)
             /\ UNCHANGED <<core, store>>

(***************************************************************************)
(* Workforce.                                                              *)
(***************************************************************************)
\* A shift check that accepts any crew name.
ValidShiftAny(s) == TRUE

ValidShift(s) == s \in {"DAY", "NIGHT"}

change_shift(new_shift) ==
    IF ValidShift(new_shift)
    THEN /\ current_shift' = new_shift
         /\ result' = Ret("change_shift", new_shift, 0, "ShiftChanged", <<>>)
         /\ UNCHANGED <<inventory, cash_balance, machine_health, factory_clock,
                        active_jobs, store>>
    ELSE /\ result' = Ret("change_shift", new_shift, 0, "InvalidShift", <<>>)
         /\ UNCHANGED <<core, store>>

\* The tool layer's change_shift: it calls the engine's change_shift with
\* the arguments ToolShiftArgs; Python binds them to the parameters after
\* self and raises TypeError when their number differs.
ChangeShiftParams == <<"new_shift">>

ToolShiftArgs == <<>>

Binds(params, args) == Len(args) = Len(params)

AFMTools_change_shift ==
    IF Binds(ChangeShiftParams, ToolShiftArgs)
    THEN change_shift(ToolShiftArgs[1])
    ELSE /\ result' = Ret("AFMTools.change_shift", "", 0, "TypeError", <<>>)
         /\ UNCHANGED <<core, store>>

(***************************************************************************)
(* Forecasting and the reads.                                              *)
(***************************************************************************)
get_market_forecast(horizon, dn, pn) ==
    /\ result' = Ret("get_market_forecast", "", horizon, "Forecast",
                     Forecast(factory_clock, horizon, dn, pn))
    /\ UNCHANGED <<core, store>>

\* A status read that also logs the state it reports.
get_status_logging ==
    /\ result' = Ret("get_status", "", 0, "Status",
                     <<factory_clock, current_shift, cash_balance, inventory,
                       machine_health, Len(active_jobs)>>)
    /\ factory_history' =
           LogState(factory_history,
                    Snapshot(factory_clock, cash_balance, inventory,
                             machine_health, active_jobs, current_shift),
                    TRUE)
    /\ UNCHANGED <<core, job_history>>

get_status ==
    /\ result' = Ret("get_status", "", 0, "Status",
                     <<factory_clock, current_shift, cash_balance, inventory,
                       machine_health, Len(active_jobs)>>)
    /\ UNCHANGED <<core, store>>

get_financials ==
    /\ result' = Ret("get_financials", "", 0, "Financials",
                     <<cash_balance, UnitCost, BasePrice>>)
    /\ UNCHANGED <<core, store>>

log_issue ==
    /\ result' = Ret("log_issue", "", 0, "LOGGED", <<>>)
    /\ UNCHANGED <<core, store>>

(***************************************************************************)
(* The simulation loop.                                                    *)
(***************************************************************************)
\* First loop of tick: every active job loses one tick of duration.
Progress(jobs) == [i \in DOMAIN jobs |-> [jobs[i] EXCEPT !.duration = @ - 1]]

Finished(job) == job.duration <= 0

\* completed_jobs, in the order of active_jobs.
Completed(jobs) == SelectSeq(jobs, Finished)

\* The key tick looks up in the dict get_market_forecast(horizon=1) returns.
SpotKey(clock) == PyInt(clock + 1)

\* Second loop of tick from its i-th completed job on.  st carries the
\* fields the loop assigns; raised is the exception that left the loop.
RECURSIVE Complete(_, _, _, _, _, _, _)
Complete(st, completed, i, clock, dn, pn, ok) ==
    IF st.raised # "" \/ i > Len(completed) THEN st
    ELSE
      LET job == completed[i]
          remaining == Remove(st.active_jobs, job)
          forecast == Forecast(clock, 1, <<dn[i]>>, <<pn[i]>>)
          found == DictFind(forecast, SpotKey(clock))
      IN  IF found = {}
          THEN [st EXCEPT !.active_jobs = remaining, !.raised = "KeyError"]
          ELSE
            LET market_price == forecast[CHOOSE k \in found : TRUE].price
                revenue == job.qty * market_price
                sold == [job EXCEPT !.revenue = revenue]
            IN  Complete([st EXCEPT
                            !.active_jobs = remaining,
                            !.cash_balance = @ + revenue,
                            !.inventory = @ + job.qty,
                            !.job_history = LogJob(@, sold, "COMPLETED", clock, ok[i])],
                         completed, i + 1, clock, dn, pn, ok)

\* A tick whose clock is put back when a completion raises.
tick_rollback(dn, pn, ok, okState) ==
    LET clock == factory_clock + 1
        progressed == Progress(active_jobs)
        st == Complete([active_jobs |-> progressed,
                        cash_balance |-> cash_balance,
                        inventory |-> inventory,
                        job_history |-> job_history,
                        raised |-> ""],
                       Completed(progressed), 1, clock, dn, pn, ok)
    IN  /\ factory_clock' = IF st.raised = "" THEN clock ELSE factory_clock
        /\ active_jobs' = st.active_jobs
        /\ cash_balance' = st.cash_balance
        /\ inventory' = st.inventory
        /\ job_history' = st.job_history
        /\ UNCHANGED <<machine_health, current_shift>>
        /\ IF st.raised = ""
           THEN /\ factory_history' =
                     LogState(factory_history,
                              Snapshot(clock, st.cash_balance, st.inventory,
                                       machine_health, st.active_jobs,
                                       current_shift),
                              okState)
                /\ result' = Ret("tick", "", 0, "None", <<>>)
           ELSE /\ factory_history' = factory_history
                /\ result' = Ret("tick", "", 0, st.raised, <<>>)

tick(dn, pn, ok, okState) ==
    LET clock == factory_clock + 1
        progressed == Progress(active_jobs)
        st == Complete([active_jobs |-> progressed,
                        cash_balance |-> cash_balance,
                        inventory |-> inventory,
                        job_history |-> job_history,
                        raised |-> ""],
                       Completed(progressed), 1, clock, dn, pn, ok)
    IN  /\ factory_clock' = clock
        /\ active_jobs' = st.active_jobs
        /\ cash_balance' = st.cash_balance
        /\ inventory' = st.inventory
        /\ job_history' = st.job_history
        /\ UNCHANGED <<machine_health, current_shift>>
        /\ IF st.raised = ""
           THEN /\ factory_history' =
                     LogState(factory_history,
                              Snapshot(clock, st.cash_balance, st.inventory,
                                       machine_health, st.active_jobs,
                                       current_shift),
                              okState)
                /\ result' = Ret("tick", "", 0, "None", <<>>)
           ELSE /\ factory_history' = factory_history
                /\ result' = Ret("tick", "", 0, st.raised, <<>>)

(***************************************************************************)
(* The callers.  Spec: a caller placing orders of Qtys units under JobIds. *)
(***************************************************************************)
StartJob ==
    \E job_id \in JobIds, qty \in Qtys, ok \in Storage :
        /\ Len(active_jobs) < MaxActive
        /\ start_job(job_id, qty, ok)

CancelJob == \E job_id \in JobIds, ok \in Storage : cancel_job(job_id, ok)

RepairMachine == repair_machine

ChangeShift == \E new_shift \in ShiftArgs : change_shift(new_shift)

GetMarketForecast ==
    \E horizon \in Horizons :
        \E dn \in [1..horizon -> DemandNoise], pn \in [1..horizon -> PriceNoise] :
            get_market_forecast(horizon, dn, pn)

GetStatus == get_status

GetFinancials == get_financials

LogIssue == log_issue

TickUpTo(last) ==
    /\ factory_clock < last
    /\ \E dn \in [1..Len(active_jobs) -> DemandNoise],
          pn \in [1..Len(active_jobs) -> PriceNoise],
          ok \in [1..Len(active_jobs) -> Storage],
          okState \in Storage :
            tick(dn, pn, ok, okState)

Tick == TickUpTo(MaxTick)

Next ==
    \/ StartJob
    \/ CancelJob
    \/ RepairMachine
    \/ ChangeShift
    \/ GetMarketForecast
    \/ GetStatus
    \/ GetFinancials
    \/ LogIssue
    \/ Tick

Spec == Init /\ [][Next]_vars

(***************************************************************************)
(* SpecRun: a production run.  The caller places and cancels orders and    *)
(* lets the clock run long enough for jobs to come due.                    *)
(***************************************************************************)
RunTick == TickUpTo(RunTicks)

NextRun ==
    \/ StartJob
    \/ CancelJob
    \/ RunTick

SpecRun == Init /\ [][NextRun]_vars

(***************************************************************************)
(* SpecWear: a caller of single-unit orders, cheap enough to wear the      *)
(* machine down to 0 before the cash runs out.  The clock stands still.    *)
(***************************************************************************)
WearStartJob ==
    \E job_id \in WearIds, qty \in WearQtys, ok \in Storage :
        /\ Len(active_jobs) < MaxActive
        /\ start_job(job_id, qty, ok)

WearCancelJob == \E job_id \in WearIds, ok \in Storage : cancel_job(job_id, ok)

NextWear ==
    \/ WearStartJob
    \/ WearCancelJob
    \/ RepairMachine
    \/ ChangeShift

SpecWear == Init /\ [][NextWear]_vars

(***************************************************************************)
(* SpecTools: the agent, which reaches the engine through the eight tools  *)
(* of AFMTools only.  No tool advances the clock.                          *)
(***************************************************************************)
ToolChangeShift == AFMTools_change_shift

NextTools ==
    \/ StartJob
    \/ CancelJob
    \/ RepairMachine
    \/ ToolChangeShift
    \/ GetMarketForecast
    \/ GetStatus
    \/ GetFinancials
    \/ LogIssue

SpecTools == Init /\ [][NextTools]_vars

(***************************************************************************)
(* Properties.                                                             *)
(***************************************************************************)
RECURSIVE SumSeq(_)
SumSeq(s) == IF s = <<>> THEN 0 ELSE Head(s) + SumSeq(Tail(s))

QtySum(jobs) == SumSeq([i \in DOMAIN jobs |-> jobs[i].qty])

Exceptions == {"KeyError", "TypeError"}

IsTickStep == factory_clock' = factory_clock + 1

\* An active job whose fifth tick is the one about to run (or is overdue).
ComesDue(job) == job.start_tick + JobDuration <= factory_clock + 1

StillActive(jobs, job) ==
    \E k \in DOMAIN jobs :
        jobs[k].id = job.id /\ jobs[k].start_tick = job.start_tick

\* C1: a job started by a successful start_job and not cancelled is
\* completed by the fifth tick after its start: that tick takes it out of
\* active_jobs, adds its quantity to inventory, credits cash with quantity
\* times the spot price forecast for clock + 1, and leaves the job's record
\* COMPLETED.
C1_CompletedAfterFiveTicks ==
    [][IsTickStep =>
         LET due == SelectSeq(active_jobs, ComesDue)
         IN  /\ \A i \in DOMAIN due : ~StillActive(active_jobs', due[i])
             /\ inventory' = inventory + QtySum(due)
             /\ \E pn \in [DOMAIN due -> PriceNoise] :
                  cash_balance' = cash_balance
                      + SumSeq([i \in DOMAIN due |->
                                  due[i].qty * Price(factory_clock' + 1, pn[i])])
             /\ \A i \in DOMAIN due :
                  /\ due[i].id \in DOMAIN job_history'
                  /\ job_history'[due[i].id].status = "COMPLETED"]_vars

\* C2: every engine operation returns to its caller, with a result or a
\* named negative result; none leaves by an unhandled error.
C2_NoOperationRaises == result.kind \notin Exceptions

\* C3: with a fresh state, an empty store and no storage failure, after n
\* ticks factory_history holds exactly the snapshots of ticks 1..n, and the
\* snapshot a tick writes is the state after that tick's completions.
C3_OneSnapshotPerTick ==
    /\ DOMAIN factory_history = 1..factory_clock
    /\ result.op = "tick" =>
         factory_history[factory_clock] =
             Snapshot(factory_clock, cash_balance, inventory, machine_health,
                      active_jobs, current_shift)

\* C4: machine_health stays within 0..100 in every reachable state.
C4_HealthInRange == 0 <= machine_health /\ machine_health <= 100

\* C4 witness: a successful start has just worn the machine down to 0.
C4_WornToZero ==
    /\ result.op = "start_job"
    /\ result.kind = "Started"
    /\ machine_health = 0

\* C5: inventory never decreases, only tick changes it, and a tick changes
\* it by exactly the total quantity of the jobs it takes out of active_jobs.
C5_InventoryCountsCompletedJobs ==
    [][IF IsTickStep
       THEN inventory' = inventory + QtySum(active_jobs) - QtySum(active_jobs')
       ELSE inventory' = inventory]_vars

\* C6: with callers passing positive quantities, cash_balance is never
\* negative: start_job and repair_machine debit only what the balance covers.
C6_CashNeverNegative == cash_balance >= 0

\* C6 witness: a debit has just taken the whole remaining balance.
C6_BalanceSpent ==
    /\ result.kind \in {"Started", "Repaired"}
    /\ cash_balance = 0

IsCall(op) == result'.op = op

StartedRecord(qty) ==
    [start_tick |-> factory_clock, end_tick |-> factory_clock,
     status |-> "STARTED", revenue |-> 0, cost |-> UnitCost * qty * Dollar]

C8_StartJobInsufficientFunds ==
    [][(/\ IsCall("start_job")
        /\ cash_balance < UnitCost * result'.qty * Dollar)
       =>
       /\ result'.kind = "InsufficientFunds"
       /\ UNCHANGED <<core, store>>]_vars

\* C8 witness: a start_job refused for lack of funds while a job is active.
C8_Refused ==
    /\ result.op = "start_job"
    /\ result.kind = "InsufficientFunds"
    /\ active_jobs # <<>>

\* C9 as claimed: with machine_health <= 0, start_job returns MachineBroken
\* whatever the quantity and the balance, and changes nothing.
C9_BrokenWhateverTheBalance ==
    [][(IsCall("start_job") /\ machine_health <= 0)
       =>
       /\ result'.kind = "MachineBroken"
       /\ UNCHANGED <<core, store>>]_vars

\* C9: with machine_health <= 0, start_job changes nothing and returns
\* MachineBroken when the balance covers 50*qty and InsufficientFunds when
\* it does not; only a successful repair_machine lifts machine_health
\* above 0 again.
C9_BrokenMachineRefusesJobs ==
    [][/\ (IsCall("start_job") /\ machine_health <= 0)
          =>
          /\ result'.kind =
                 IF cash_balance >= UnitCost * result'.qty * Dollar
                 THEN "MachineBroken" ELSE "InsufficientFunds"
          /\ UNCHANGED <<core, store>>
       /\ (machine_health <= 0 /\ machine_health' > 0)
          =>
          (IsCall("repair_machine") /\ result'.kind = "Repaired")]_vars

\* C9 witness: a funded start_job has just been refused by a machine at 0.
C9_RefusedByBrokenMachine ==
    /\ result.op = "start_job"
    /\ result.kind = "MachineBroken"
    /\ machine_health = 0
    /\ cash_balance >= UnitCost * result.qty * Dollar

\* C10: repair_machine with cash_balance < 200 returns InsufficientFunds
\* and changes nothing; with cash_balance >= 200 it debits exactly 200,
\* sets machine_health to 100 and changes nothing else.
C10_RepairMachine ==
    [][IsCall("repair_machine")
       =>
       IF cash_balance < 200 * Dollar
       THEN /\ result'.kind = "InsufficientFunds"
            /\ UNCHANGED <<core, store>>
       ELSE /\ result'.kind = "Repaired"
            /\ cash_balance' = cash_balance - 200 * Dollar
            /\ machine_health' = 100
            /\ UNCHANGED <<factory_clock, inventory, current_shift,
                           active_jobs, store>>]_vars

\* C10 witness: a repair has just restored a machine worn by an active job.
C10_RepairedWornMachine ==
    /\ result.op = "repair_machine"
    /\ result.kind = "Repaired"
    /\ machine_health = 100
    /\ active_jobs # <<>>


\* C11: change_shift(newShift) with newShift outside {DAY, NIGHT} returns
\* InvalidShift and changes nothing; with DAY or NIGHT it sets the shift and
\* changes nothing else, so the shift is always DAY or NIGHT and the wear
\* already taken by a started job stays as it was.
C11_ChangeShift ==
    [][/\ IsCall("change_shift")
          =>
          IF result'.arg \in {"DAY", "NIGHT"}
          THEN /\ result'.kind = "ShiftChanged"
               /\ current_shift' = result'.arg
               /\ UNCHANGED <<inventory, cash_balance, machine_health,
                              factory_clock, active_jobs, store>>
          ELSE /\ result'.kind = "InvalidShift"
               /\ UNCHANGED <<core, store>>
       /\ current_shift \in {"DAY", "NIGHT"}
       /\ current_shift' \in {"DAY", "NIGHT"}]_vars

\* C11 witness: the crew changed to NIGHT after a day-shift start, whose
\* wear of 5 stands.
C11_NightAfterDayStart ==
    /\ result.op = "change_shift"
    /\ result.kind = "ShiftChanged"
    /\ current_shift = "NIGHT"
    /\ active_jobs # <<>>
    /\ machine_health = 100 - 5


\* C12: AFMTools.change_shift(), called with no argument, toggles the crew:
\* from DAY it sets the engine's shift to NIGHT, from NIGHT to DAY, and it
\* returns a confirmation.
C12_ToolTogglesShift ==
    [][IsCall("AFMTools.change_shift")
       =>
       /\ result'.kind = "ShiftChanged"
       /\ current_shift' = IF current_shift = "DAY" THEN "NIGHT" ELSE "DAY"]_vars


HasActive(id) == \E i \in DOMAIN active_jobs : active_jobs[i].id = id

\* The sequence without its k-th element.
Without(seq, k) == SubSeq(seq, 1, k - 1) \o SubSeq(seq, k + 1, Len(seq))

C14_CancelUnknownJob ==
    [][(IsCall("cancel_job") /\ ~HasActive(result'.arg))
       =>
       /\ result'.kind = "JobNotFound"
       /\ UNCHANGED <<core, store>>]_vars

\* C14 witness: a second cancel_job of an id whose job was cancelled
\* before, while another job is running.
C14_CancelledTwice ==
    /\ result.op = "cancel_job"
    /\ result.kind = "JobNotFound"
    /\ result.arg \in DOMAIN job_history
    /\ job_history[result.arg].status = "CANCELLED"
    /\ active_jobs # <<>>


\* C15: get_status and get_financials are pure reads: they change no engine
\* state, write nothing to the store, and what they return is fixed by the
\* state they leave untouched, so a second call with no mutation in between
\* returns the same.
C15_ReadsArePure ==
    [][/\ IsCall("get_status")
          =>
          /\ UNCHANGED <<core, store>>
          /\ result'.kind = "Status"
          /\ result'.value = <<factory_clock, current_shift, cash_balance,
                               inventory, machine_health, Len(active_jobs)>>
       /\ IsCall("get_financials")
          =>
          /\ UNCHANGED <<core, store>>
          /\ result'.kind = "Financials"
          /\ result'.value = <<cash_balance, 50, 150>>]_vars

\* C15 witness: a status read one tick in, on the night shift,
\* with a job running.
C15_StatusWithJobRunning ==
    /\ result.op = "get_status"
    /\ result.value = <<1, "NIGHT", 500 * Dollar, 0, 92, 1>>


\* C16: the clock starts at 0; a tick() call adds exactly 1 to it, whether it
\* returns or raises, and no other operation changes it, so it never
\* decreases.
C16_ClockCountsTicks ==
    /\ factory_clock = 0
    /\ [][IF IsCall("tick")
          THEN factory_clock' = factory_clock + 1
          ELSE factory_clock' = factory_clock]_vars

\* C16 witness: the tick that raised on a due job has advanced the clock to
\* the tick the job was due.
C16_ClockAdvancedByFailedTick ==
    /\ result.op = "tick"
    /\ result.kind \in Exceptions
    /\ factory_clock = JobDuration


(***************************************************************************)
(* SpecFaulty: the production run over a store that may refuse any write.  *)
(***************************************************************************)
Writes == BOOLEAN

FaultyStartJob ==
    \E job_id \in JobIds, qty \in Qtys, ok \in Writes :
        /\ Len(active_jobs) < MaxActive
        /\ start_job(job_id, qty, ok)

FaultyCancelJob == \E job_id \in JobIds, ok \in Writes : cancel_job(job_id, ok)

FaultyTick ==
    /\ factory_clock < FaultyTicks
    /\ \E dn \in [1..Len(active_jobs) -> DemandNoise],
          pn \in [1..Len(active_jobs) -> PriceNoise],
          ok \in [1..Len(active_jobs) -> Writes],
          okState \in Writes :
            tick(dn, pn, ok, okState)

NextFaulty ==
    \/ FaultyStartJob
    \/ FaultyCancelJob
    \/ FaultyTick

SpecFaulty == Init /\ [][NextFaulty]_vars


\* What a call leaves in memory and returns when every write it makes is
\* accepted, for the call and arguments recorded in result'.
ReliableStartJob ==
    LET qty == result'.qty
        job == NewJob(result'.arg, qty, factory_clock)
    IN  IF Affordable(cash_balance, TotalCost(qty)) /\ ~Broken(machine_health)
        THEN /\ result'.kind = "Started"
             /\ cash_balance' = cash_balance - TotalCost(qty)
             /\ active_jobs' = Append(active_jobs, job)
             /\ machine_health' = Worn(machine_health, Wear(current_shift))
             /\ UNCHANGED <<inventory, factory_clock, current_shift>>
        ELSE /\ result'.kind \in {"InsufficientFunds", "MachineBroken"}
             /\ UNCHANGED core

ReliableCancelJob ==
    IF HasActive(result'.arg)
    THEN LET k == CHOOSE i \in DOMAIN active_jobs :
                     /\ active_jobs[i].id = result'.arg
                     /\ \A j \in 1..(i - 1) : active_jobs[j].id # result'.arg
         IN  /\ result'.kind = "Cancelled"
             /\ active_jobs' = Without(active_jobs, k)
             /\ UNCHANGED <<inventory, cash_balance, machine_health,
                            factory_clock, current_shift>>
    ELSE /\ result'.kind = "JobNotFound"
         /\ UNCHANGED core

ReliableTick ==
    \E dn \in [1..Len(active_jobs) -> DemandNoise],
       pn \in [1..Len(active_jobs) -> PriceNoise] :
        LET progressed == Progress(active_jobs)
            st == Complete([active_jobs |-> progressed,
                            cash_balance |-> cash_balance,
                            inventory |-> inventory,
                            job_history |-> job_history,
                            raised |-> ""],
                           Completed(progressed), 1, factory_clock + 1, dn, pn,
                           [i \in 1..Len(active_jobs) |-> TRUE])
        IN  /\ result'.kind = IF st.raised = "" THEN "None" ELSE st.raised
            /\ factory_clock' = factory_clock + 1
            /\ active_jobs' = st.active_jobs
            /\ cash_balance' = st.cash_balance
            /\ inventory' = st.inventory
            /\ UNCHANGED <<machine_health, current_shift>>

\* C17: over a store that may refuse any snapshot or job-record write, every
\* call leaves in memory and returns what it does when its writes are
\* accepted; a refused write changes neither, and reaches the caller as no
\* error.
C17_StorageFailureKeepsOutcome ==
    [][/\ IsCall("start_job") => ReliableStartJob
       /\ IsCall("cancel_job") => ReliableCancelJob
       /\ IsCall("tick") => ReliableTick]_vars

\* C17 witness: a job started, the clock run on and the job cancelled with
\* every write refused: the store is empty, the memory is not.
C17_NothingStored ==
    /\ result.op = "cancel_job"
    /\ result.kind = "Cancelled"
    /\ factory_clock = 2
    /\ cash_balance = 500 * Dollar
    /\ job_history = EmptyTable
    /\ factory_history = EmptyTable


\* The job table after a write of rec under id: one row for id, holding rec,
\* every other row as it was.
WrittenOver(id, rec) ==
    /\ DOMAIN job_history' = DOMAIN job_history \cup {id}
    /\ job_history'[id] = rec
    /\ \A x \in DOMAIN job_history \ {id} : job_history'[x] = job_history[x]

FirstActive(id) ==
    CHOOSE i \in DOMAIN active_jobs :
        /\ active_jobs[i].id = id
        /\ \A j \in 1..(i - 1) : active_jobs[j].id # id

\* C18: job_history has one row per job id, and with a reliable store each
\* lifecycle write (STARTED, COMPLETED, CANCELLED) replaces the row of its id
\* by its own status, end_tick, revenue and cost and touches no other row;
\* nothing else changes the table, so a row is always the latest write.
C18_LatestJobWriteWins ==
    [][CASE IsCall("start_job") /\ result'.kind = "Started" ->
              WrittenOver(result'.arg,
                          [start_tick |-> factory_clock,
                           end_tick |-> factory_clock,
                           status |-> "STARTED",
                           revenue |-> 0,
                           cost |-> TotalCost(result'.qty)])
         [] IsCall("cancel_job") /\ result'.kind = "Cancelled" ->
              LET job == active_jobs[FirstActive(result'.arg)]
              IN  WrittenOver(result'.arg,
                              [start_tick |-> job.start_tick,
                               end_tick |-> factory_clock,
                               status |-> "CANCELLED",
                               revenue |-> 0,
                               cost |-> job.cost])
         [] IsCall("tick") ->
              /\ DOMAIN job_history' = DOMAIN job_history
              /\ \A id \in DOMAIN job_history :
                    \/ job_history'[id] = job_history[id]
                    \/ /\ job_history'[id].status = "COMPLETED"
                       /\ job_history'[id].end_tick = factory_clock'
                       /\ \E i \in DOMAIN active_jobs :
                             /\ active_jobs[i].id = id
                             /\ ComesDue(active_jobs[i])
                             /\ job_history'[id].cost = active_jobs[i].cost
                             /\ cash_balance' - cash_balance
                                   >= job_history'[id].revenue
         [] OTHER -> job_history' = job_history]_vars

\* C18 witness: a row written STARTED at one tick and overwritten CANCELLED
\* at a later one, beside the row of another job.
C18_CancelledOverStarted ==
    /\ "O1" \in DOMAIN job_history
    /\ "O2" \in DOMAIN job_history
    /\ job_history["O1"].status = "CANCELLED"
    /\ job_history["O1"].end_tick > job_history["O1"].start_tick
    /\ job_history["O2"].status = "STARTED"


(***************************************************************************)
(* SpecOrders: a production run by a caller that never reuses the id of a  *)
(* job still active.                                                       *)
(***************************************************************************)
UniqueStartJob ==
    \E job_id \in JobIds, qty \in Qtys, ok \in Storage :
        /\ ~HasActive(job_id)
        /\ start_job(job_id, qty, ok)

NextOrders ==
    \/ UniqueStartJob
    \/ CancelJob
    \/ RunTick

SpecOrders == Init /\ [][NextOrders]_vars

\* C19: between operations, with a reliable store and ids never reused while
\* active, the row of an id is STARTED exactly when a job with that id is
\* active: a removed job has a COMPLETED or CANCELLED row, an active job has
\* neither.
C19_StartedIffActive ==
    \A id \in JobIds :
        (id \in DOMAIN job_history /\ job_history[id].status = "STARTED")
        <=> HasActive(id)


\* C20: after every tick() call, also one in which several jobs come due,
\* each job left in active_jobs has at least one tick to run, namely
\* 5 - (clock - start_tick); no job at 0 or below stays active.
C20_RemainingDurations ==
    [][IsCall("tick")
       =>
       \A i \in DOMAIN active_jobs' :
          /\ active_jobs'[i].duration >= 1
          /\ active_jobs'[i].duration
                = JobDuration - (factory_clock' - active_jobs'[i].start_tick)]_vars


\* C21: in every reachable state no two jobs in active_jobs carry the same
\* id: start_job under an id that is already active adds no second job.
C21_ActiveIdsDistinct ==
    \A i, j \in DOMAIN active_jobs :
        active_jobs[i].id = active_jobs[j].id => i = j


(***************************************************************************)
(* SpecConstruct: the constructor itself, then a short run on the engine   *)
(* it returns.  The first state is __init__ at its call of _init_db: the   *)
(* core fields are assigned, self.logger is not yet.                       *)
(***************************************************************************)
Opens == BOOLEAN

InitConstructing ==
    /\ inventory = 0
    /\ cash_balance = InitialCash * Dollar
    /\ machine_health = InitialHealth
    /\ factory_clock = 0
    /\ current_shift = "DAY"
    /\ active_jobs = <<>>
    /\ job_history = EmptyTable
    /\ factory_history = EmptyTable
    /\ result = Ret("__init__", "", 0, "running", <<>>)

\* _init_db and the rest of __init__.  A store that does not open sends
\* _init_db into its except clause, which reads self.logger before __init__
\* has assigned it: the AttributeError leaves the constructor.
init_db(opened) ==
    /\ result.kind = "running"
    /\ IF opened
       THEN /\ job_history' = EmptyTable
            /\ factory_history' = EmptyTable
            /\ result' = Ret("__init__", "opened", 0, "ok", <<>>)
       ELSE /\ UNCHANGED store
            /\ result' = Ret("__init__", "unavailable", 0, "AttributeError", <<>>)
    /\ UNCHANGED core

\* The caller holds an engine once the constructor has returned.
Constructed == result.kind \notin {"running", "AttributeError"}

Construct == \E opened \in Opens : init_db(opened)

BuiltStartJob == Constructed /\ StartJob

BuiltCancelJob == Constructed /\ CancelJob

BuiltTick == Constructed /\ Tick

NextConstruct ==
    \/ Construct
    \/ BuiltStartJob
    \/ BuiltCancelJob
    \/ BuiltTick

SpecConstruct == InitConstructing /\ [][NextConstruct]_vars

\* C22: a FactoryState constructed over a store that cannot be opened or
\* initialised is returned to the caller as a usable engine in the fresh
\* state (cash 1000, inventory 0, health 100, clock 0, shift DAY, no active
\* jobs); the failure is not raised.
C22_ConstructedWithoutStore ==
    [][(IsCall("__init__") /\ result'.arg = "unavailable")
       =>
       /\ result'.kind = "ok"
       /\ inventory' = 0
       /\ cash_balance' = 1000 * Dollar
       /\ machine_health' = 100
       /\ factory_clock' = 0
       /\ current_shift' = "DAY"
       /\ active_jobs' = <<>>]_vars

====
